---- MODULE Spec2Model ----
(***************************************************************************)
(* Movie Library: the movie routes of the Express server                   *)
(* (src/server/routes/movies.js) over the Movie collection                 *)
(* (src/unnamed/part_001, the mongoose Movie schema).                      *)
(*                                                                         *)
(* Every route handler is an async function.  The code between two awaits  *)
(* runs without interruption (one Node event loop), every awaited store    *)
(* call is atomic on one document, so a handler is one action per awaited  *)
(* store call, and Finish ends the request once its response is sent.      *)
(* Spec runs the requests one at a time; SpecConc lets the handlers of two *)
(* requests interleave at their awaits.  SpecUpdates, SpecCreateDelete and *)
(* SpecRoundTrip interleave the handlers of two of the routes alone.       *)
(*                                                                         *)
(* Every movie route runs behind the auth middleware.  The middleware, the *)
(* User model and the auth routes (register, login, current user) follow   *)
(* the design document (sections 4.1, 4.2 and 6); SpecAuth runs the auth   *)
(* routes from an empty User collection, the other specifications start    *)
(* with two registered accounts.                                           *)
(*                                                                         *)
(* Text is a sequence of one-character strings, so that length and trim    *)
(* are computed as String.prototype.trim and .length compute them.         *)
(* Ratings are whole numbers.  uploadedAt is the construction sequence     *)
(* number of the document (it is also its _id).  createdAt/updatedAt and  *)
(* sortBy/sortOrder other than the default are not modelled; the text      *)
(* search matches whole words, case folded, without stemming.              *)
(*                                                                         *)
(* The React client is modelled where it decides what is sent and shown:   *)
(* the Dashboard's fetchMovies calls (src/unnamed/part_000; SpecDashboard) *)
(* and the edit submission of the MovieForm (SpecForm).                    *)
(***************************************************************************)
EXTENDS Integers, Sequences, FiniteSets, TLC

\* ------------------------------------------------------------------ bounds
\* Number of Movie documents ever constructed (ObjectIds handed out).
MaxMovies == 2
\* Largest page number and largest limit a list request asks for.
MaxPage == 2
MaxLimit == 2

\* ------------------------------------------------- constants of the schema
TitleMaxLength == 200
DescriptionMaxLength == 1000
GenreMaxLength == 50
ReleaseYearMin == 1900
CurrentYear == 2026
ReleaseYearMax == CurrentYear + 5
RatingMin == 0
RatingMax == 10
RatingDefault == 0

Users == {"A", "B"}
Procs == {1, 2}

\* _id values: ObjectIds are handed out in order; a malformed id is a string
\* that does not cast to an ObjectId.
ObjectIds == 1..MaxMovies
MalformedIds == {0}
RequestIds == ObjectIds \cup MalformedIds

\* --------------------------------------------------------------------- text
Rep(c, n) == [i \in 1..n |-> c]
Empty == <<>>
Blank == <<" ", " ">>
Pad(s) == <<" ">> \o s \o <<" ">>
Dune == <<"D", "u", "n", "e">>
Arrival == <<"A", "r", "r", "i", "v", "a", "l">>
Saga == <<"s", "a", "g", "a">>
SciFi == <<"S", "c", "i", "-", "F", "i">>
Url == <<"u", "r", "l">>

RECURSIVE TrimStart(_)
TrimStart(s) == IF s # <<>> /\ Head(s) = " " THEN TrimStart(Tail(s)) ELSE s

RECURSIVE TrimEnd(_)
TrimEnd(s) == IF s # <<>> /\ s[Len(s)] = " " THEN TrimEnd(SubSeq(s, 1, Len(s) - 1)) ELSE s

\* String.prototype.trim
trim(s) == TrimEnd(TrimStart(s))

\* A request body is a function from the field names it carries to values.
TextFields == {"title", "description", "genre", "posterUrl"}
NumberFields == {"releaseYear", "rating"}

Has(b, f) == f \in DOMAIN b

\* JavaScript truthiness of a body field: undefined, "" and 0 are falsy.
Truthy(b, f) == Has(b, f) /\ (IF f \in NumberFields THEN b[f] # 0 ELSE b[f] # Empty)

\* b with field f set to v (object spread / property assignment).
With(b, f, v) == [g \in DOMAIN b \cup {f} |-> IF g = f THEN v ELSE b[g]]

\* Object.assign(a, b): the fields of b over those of a.
\* Mutant of Assign: the operands are swapped, the fields the document has
\* already are kept.
AssignSwapped(a, b) == [g \in DOMAIN a \cup DOMAIN b |-> IF g \in DOMAIN a THEN a[g] ELSE b[g]]

Assign(a, b) == [g \in DOMAIN a \cup DOMAIN b |-> IF g \in DOMAIN b THEN b[g] ELSE a[g]]

\* Mutant of Ceil: the quotient plus one, also when the division is exact.
CeilOffByOne(a, b) == (a \div b) + 1

\* Math.ceil(a / b) for a >= 0, b > 0.
Ceil(a, b) == (a + b - 1) \div b

\* JSON null in place of a document, and in place of a number (Infinity and
\* NaN serialise to null).
NullDoc == <<>>
NullNumber == 0 - 1

\* ------------------------------------------------------ request validators
\* One entry of validationResult(req).array().
Failure(cond, path, msg) == IF cond THEN {[path |-> path, msg |-> msg]} ELSE {}

\* notEmpty(): a missing field is validated as "".
IsEmptyField(b, f) == ~Has(b, f) \/ b[f] = Empty

\* isLength({ max }): counts the characters as sent, a missing field is "".
TooLong(b, f, max) == Has(b, f) /\ Len(b[f]) > max

\* The chains of POST /api/movies.
PostValidators(b) ==
    Failure(IsEmptyField(b, "title"), "title", "Title is required")
    \cup Failure(IsEmptyField(b, "description"), "description", "Description is required")
    \cup Failure(TooLong(b, "title", TitleMaxLength), "title",
                 "Title must be less than 200 characters")
    \cup Failure(TooLong(b, "description", DescriptionMaxLength), "description",
                 "Description must be less than 1000 characters")

\* The chains of PUT /api/movies/:id: optional() skips a field that is not sent.
PutValidators(b) ==
    Failure(Has(b, "title") /\ IsEmptyField(b, "title"), "title", "Title cannot be empty")
    \cup Failure(Has(b, "description") /\ IsEmptyField(b, "description"), "description",
                 "Description cannot be empty")
    \cup Failure(TooLong(b, "title", TitleMaxLength), "title",
                 "Title must be less than 200 characters")
    \cup Failure(TooLong(b, "description", DescriptionMaxLength), "description",
                 "Description must be less than 1000 characters")

\* ------------------------------------------------------------ Movie schema
\* Casting by the schema: every String path has trim: true.
Cast(d) == [f \in DOMAIN d |-> IF f \in TextFields THEN trim(d[f]) ELSE d[f]]

\* The validators of one schema path on a (cast) document or update; the
\* result is whether the path fails.
PathFails(d, f) ==
    CASE f = "title" ->
            IsEmptyField(d, f) \/ Len(d[f]) > TitleMaxLength
      [] f = "description" ->
            IsEmptyField(d, f) \/ Len(d[f]) > DescriptionMaxLength
      [] f = "genre" -> Has(d, f) /\ Len(d[f]) > GenreMaxLength
      [] f = "releaseYear" ->
            Has(d, f) /\ (d[f] < ReleaseYearMin \/ d[f] > ReleaseYearMax)
      [] f = "rating" -> Has(d, f) /\ (d[f] < RatingMin \/ d[f] > RatingMax)
      [] OTHER -> FALSE

SchemaPaths == {"title", "description", "genre", "releaseYear", "rating", "posterUrl"}

\* document.validate() before save: every path of the schema.
ValidateDoc(d) == {f \in SchemaPaths : PathFails(d, f)}

\* Mutant of ValidateUpdate: runValidators is left out, nothing is validated.
ValidateUpdateOff(u) == {}

\* runValidators: true on findByIdAndUpdate: only the paths that are $set.
ValidateUpdate(u) == {f \in SchemaPaths \cap DOMAIN u : PathFails(u, f)}

\* new Movie({...}) of POST /api/movies, for user u and a validated body b.
NewMovie(u, b, id) ==
    LET base == [title |-> trim(b["title"]), description |-> trim(b["description"]),
                 uploadedBy |-> u, uploadedAt |-> id, rating |-> RatingDefault]
        g == IF Truthy(b, "genre") THEN With(base, "genre", trim(b["genre"])) ELSE base
        y == IF Truthy(b, "releaseYear") THEN With(g, "releaseYear", b["releaseYear"]) ELSE g
        r == IF Truthy(b, "rating") THEN With(y, "rating", b["rating"]) ELSE y
    IN  Cast(IF Truthy(b, "posterUrl") THEN With(r, "posterUrl", trim(b["posterUrl"])) ELSE r)

\* Mutant of Updates: every field of the body is written.
UpdatesWholeBody(b) ==
    [f \in DOMAIN b |-> IF f \in TextFields THEN trim(b[f]) ELSE b[f]]

\* Mutant of Updates: a field is written only when its value is truthy.
UpdatesTruthy(b) ==
    [f \in {g \in SchemaPaths : Truthy(b, g)} |->
        IF f \in TextFields THEN trim(b[f]) ELSE b[f]]

\* The updates object of PUT /api/movies/:id: the six fields, when sent.
Updates(b) ==
    [f \in SchemaPaths \cap DOMAIN b |-> IF f \in TextFields THEN trim(b[f]) ELSE b[f]]

\* ------------------------------------------------------------------ inputs
\* Bodies of POST /api/movies.
PostBodies ==
    { [title |-> Dune, description |-> Saga],
      [title |-> Pad(Dune), description |-> Pad(Saga)],
      [title |-> Dune, description |-> Saga, releaseYear |-> 0],
      [title |-> Arrival, description |-> Saga, genre |-> SciFi,
       releaseYear |-> 2021, rating |-> 9, posterUrl |-> Url],
      [title |-> Arrival, description |-> Saga, genre |-> Empty],
      [description |-> Saga],
      [title |-> Empty, description |-> Empty],
      [title |-> Blank, description |-> Saga],
      [title |-> Rep("x", TitleMaxLength + 1), description |-> Saga],
      [title |-> Dune, description |-> Rep("x", DescriptionMaxLength + 1)],
      [title |-> Dune, description |-> Saga, genre |-> Rep("x", GenreMaxLength + 1)],
      [title |-> Dune, description |-> Saga, releaseYear |-> ReleaseYearMin - 1],
      [title |-> Dune, description |-> Saga, releaseYear |-> ReleaseYearMax + 1],
      [title |-> Dune, description |-> Saga, rating |-> RatingMax + 1],
      [title |-> Dune, description |-> Saga, rating |-> RatingMin - 1] }

\* Bodies of PUT /api/movies/:id.
PutBodies ==
    { [rating |-> 9, genre |-> Empty],
      [title |-> Pad(Dune), uploadedBy |-> "B"],
      [title |-> Empty],
      [description |-> Empty],
      [title |-> Blank],
      [title |-> Rep("x", TitleMaxLength + 1)],
      [description |-> Rep("x", DescriptionMaxLength + 1)],
      [genre |-> Rep("x", GenreMaxLength + 1)],
      [releaseYear |-> ReleaseYearMin - 1],
      [releaseYear |-> ReleaseYearMax + 1],
      [rating |-> RatingMax + 1],
      [rating |-> RatingMin - 1] }

\* Query strings of the two list routes: page and limit, or neither.
Queries == {<<>>} \cup {[page |-> a, limit |-> l] : a \in 0..MaxPage, l \in 0..MaxLimit}

\* ------------------------------------------------------------------- state
VARIABLES
    users,      \* the User collection: _id -> account
    movies,     \* the Movie collection: _id -> document
    nextId,     \* the next ObjectId a new Movie(...) gets
    deleted,    \* the _ids a findByIdAndDelete has removed
    pc,         \* per request slot: the await its handler is at
    req,        \* per request slot: the request being handled
    local,      \* per request slot: the handler's local (movie, updates, movies)
    resp,       \* per request slot: the response sent
    dashboard,  \* the state of the Dashboard component and its fetchMovies calls
    formData    \* per request slot: the formData of the MovieForm submitted through it

\* The state of the browser.
client == <<dashboard, formData>>

vars == <<users, movies, nextId, deleted, pc, req, local, resp, dashboard, formData>>

\* A bearer token binds a user identity (sub); signed is whether its
\* signature verifies and its expiry has not passed.  NoToken is a request
\* without an Authorization header.
NoToken == [sub |-> "none", signed |-> FALSE]
Sign(u) == [sub |-> u, signed |-> TRUE]
Forged(u) == [sub |-> u, signed |-> FALSE]

\* The tokens requests carry: those of the two accounts; and none, one whose
\* signature does not verify, one of an account that is not stored.
UserTokens == {Sign(u) : u \in Users}
BadTokens == {NoToken, Forged("A"), Sign("Z")}
Tokens == UserTokens \cup BadTokens

\* req.user before the access guard has attached a user.
NoUser == "none"

NoRequest ==
    [op |-> "none", token |-> NoToken, user |-> NoUser, id |-> 0,
     body |-> <<>>, query |-> <<>>]
NoResponse == [status |-> 0, body |-> <<>>]

\* The account a register call stores (the password as its salted hash).
Hash(password) == <<"hash", password>>
Account(username, email, password) ==
    [username |-> username, email |-> email, password |-> Hash(password)]

\* The movie routes are served with the accounts of A and B registered.
Registered ==
    [u \in Users |-> IF u = "A" THEN Account("ann", "a@x", "pw1")
                                ELSE Account("bob", "b@x", "pw2")]

\* The useState defaults of the Dashboard (part_000 171-179), before its
\* effect has run.  calls are the fetchMovies calls awaiting their response:
\* the request slot of each and whether it is the most recently issued one.
\* answer is the body of the response to the most recently issued call, once
\* that call has completed (a history of the run, not state of the
\* component).
InitialDashboard ==
    [mounted |-> FALSE, movies |-> <<>>, isLoading |-> TRUE, error |-> "",
     searchTerm |-> <<>>, currentPage |-> 1, totalPages |-> 1,
     calls |-> {}, answer |-> NoResponse]

Init ==
    /\ users = Registered
    /\ movies = <<>>
    /\ nextId = 1
    /\ deleted = {}
    /\ pc = [p \in Procs |-> "idle"]
    /\ req = [p \in Procs |-> NoRequest]
    /\ local = [p \in Procs |-> <<>>]
    /\ resp = [p \in Procs |-> NoResponse]
    /\ dashboard = InitialDashboard
    /\ formData = [p \in Procs |-> <<>>]

\* A slot takes a new request when it is idle.
Free(p) == pc[p] = "idle"

\* res.status(s).json(b): the handler of slot p is done, its locals are gone.
Respond(p, s, b) ==
    /\ pc' = [pc EXCEPT ![p] = "done"]
    /\ resp' = [resp EXCEPT ![p] = [status |-> s, body |-> b]]
    /\ local' = [local EXCEPT ![p] = <<>>]

\* The handler of slot p awaits the store call `at`, holding the local l; it
\* has sent no response yet.
Await(p, at, l) ==
    /\ pc' = [pc EXCEPT ![p] = at]
    /\ local' = [local EXCEPT ![p] = l]
    /\ resp' = [resp EXCEPT ![p] = NoResponse]


Message(m) == [message |-> m]

\* The request of slot p is r.
Accept(p, r) ==
    /\ Free(p)
    /\ req' = [req EXCEPT ![p] = r]

\* ------------------------------------------------------------ access guard
NoError == "none"

\* authenticate(rawToken): the user the token resolves to, or the AuthError.
authenticate(t) ==
    IF t = NoToken THEN [user |-> NoUser, error |-> "missing token"]
    ELSE IF ~t.signed THEN [user |-> NoUser, error |-> "invalid/expired token"]
    ELSE IF t.sub \notin DOMAIN users THEN [user |-> NoUser, error |-> "user not found"]
    ELSE [user |-> t.sub, error |-> NoError]

\* Mutant of Route: the route is registered without the auth middleware, the
\* handler runs for whatever identity the token names.
RouteUnguarded(p, r, handler) ==
    /\ Accept(p, [r EXCEPT !.user = r.token.sub])
    /\ handler
    /\ UNCHANGED users

\* router.METHOD(path, auth, handler): the guard runs first and reads the
\* token alone; it attaches the user and lets the handler run, or answers 401
\* and the handler does not run.
Route(p, r, handler) ==
    /\ Accept(p, [r EXCEPT !.user = authenticate(r.token).user])
    /\ IF authenticate(r.token).error = NoError
       THEN handler
       ELSE /\ Respond(p, 401, Message(authenticate(r.token).error))
            /\ UNCHANGED <<movies, nextId, deleted>>
    /\ UNCHANGED users

\* populate('uploadedBy', 'username') and the _id of the document; the path
\* is null when no account has the _id.
Populate(d, id) ==
    With(With(d, "_id", id), "uploadedBy",
         IF d["uploadedBy"] \in DOMAIN users
         THEN [_id |-> d["uploadedBy"], username |-> users[d["uploadedBy"]].username]
         ELSE NullDoc)

\* Movie.findById(id): "CastError" for a malformed id, else the _id, or
\* "none" when no document has it.
FindById(id) ==
    IF id \in MalformedIds THEN "CastError"
    ELSE IF id \in DOMAIN movies THEN "found" ELSE "none"

\* Mutant of IsOwner: the ownership check lets every user through.
IsOwnerAnyUser(id, u) == TRUE

\* movie.uploadedBy.toString() !== req.user._id.toString(), negated.
IsOwner(id, u) == movies[id]["uploadedBy"] = u

\* Mutant of CatchStatus: every caught error is a server error.
CatchStatusServerError(name) == 500

\* The catch block of the /:id routes: a CastError is answered as not found.
CatchStatus(name) == IF name = "CastError" THEN 404 ELSE 500

\* The body the catch block sends.
CatchMessage(name, otherwise) ==
    Message(IF name = "CastError" THEN "Movie not found" ELSE otherwise)

\* Mutant of FindOne: the duplicate check looks at the title alone.
FindOneAnyOwner(t, u) == {id \in DOMAIN movies : movies[id]["title"] = t}

\* Movie.findOne({ title, uploadedBy }).
FindOne(t, u) ==
    {id \in DOMAIN movies : movies[id]["title"] = t /\ movies[id]["uploadedBy"] = u}

\* Mutant of Remove: the document is kept (a soft delete).
RemoveKeeps(id) == movies

\* Movie.findByIdAndDelete(id): the collection without the document.
Remove(id) == [i \in DOMAIN movies \ {id} |-> movies[i]]

\* ------------------------------------------------------------- list routes
DefaultPage == 1
DefaultLimit == 10

\* const { page = 1, limit = 10 } = req.query
PageOf(q) == IF Has(q, "page") THEN q["page"] ELSE DefaultPage
LimitOf(q) == IF Has(q, "limit") THEN q["limit"] ELSE DefaultLimit

Min(a, b) == IF a < b THEN a ELSE b

\* The documents of a set of _ids, newest first (sort { uploadedAt: -1 }).
RECURSIVE SortDesc(_)
SortDesc(S) ==
    IF S = {} THEN <<>>
    ELSE LET m == CHOOSE x \in S :
                    \A y \in S : movies[y]["uploadedAt"] <= movies[x]["uploadedAt"]
         IN  <<m>> \o SortDesc(S \ {m})

\* .limit(l).skip(k) on a sorted result; limit 0 is no limit.
Slice(s, k, l) == SubSeq(s, k + 1, IF l = 0 THEN Len(s) ELSE Min(k + l, Len(s)))

\* Movie.find(query).populate(...).sort(...).limit(limit * 1).skip((page - 1) * limit).lean()
Find(S, q) ==
    LET ids == Slice(SortDesc(S), (PageOf(q) - 1) * LimitOf(q), LimitOf(q))
    IN  [i \in 1..Len(ids) |-> Populate(movies[ids[i]], ids[i])]

\* The store rejects a negative skip: the find throws.
FindThrows(q) == (PageOf(q) - 1) * LimitOf(q) < 0

\* Math.ceil(total / limit): Infinity or NaN for limit 0, sent as null.
TotalPages(total, l) == IF l = 0 THEN NullNumber ELSE Ceil(total, l)

\* The body of a list response.
Listing(found, q, total) ==
    [movies |-> found, currentPage |-> PageOf(q),
     totalPages |-> TotalPages(total, LimitOf(q)), totalMovies |-> total]

\* The documents a list route matches: all, or those of one owner.
All == DOMAIN movies

\* The text index of the Movie model folds case and splits a text into words.
Folded == [c \in {"A", "D", "F", "S"} |->
              CASE c = "A" -> "a" [] c = "D" -> "d" [] c = "F" -> "f" [] c = "S" -> "s"]
toLower(s) == [i \in DOMAIN s |-> IF s[i] \in DOMAIN Folded THEN Folded[s[i]] ELSE s[i]]
Delimiters == {" ", "-"}

\* The words of s: its maximal runs of characters that are no delimiter.
RECURSIVE Words(_, _)
Words(s, word) ==
    IF s = <<>> THEN (IF word = <<>> THEN {} ELSE {word})
    ELSE IF Head(s) \in Delimiters
         THEN (IF word = <<>> THEN {} ELSE {word}) \cup Words(Tail(s), <<>>)
         ELSE Words(Tail(s), Append(word, Head(s)))
Terms(s) == Words(toLower(s), <<>>)

\* { $text: { $search: search } } on the index over title and description:
\* the documents holding a word of the search string in either field.
TextSearch(search) ==
    {id \in DOMAIN movies :
        Terms(search) \cap (Terms(movies[id]["title"])
                              \cup Terms(movies[id]["description"])) # {}}

\* const query = {}; if (search) query.$text = { $search: search }
Query(q) == IF Truthy(q, "search") THEN TextSearch(q["search"]) ELSE All

\* Mutant of OwnedBy: the owner filter is left out of the query.
OwnedByAnyone(u) == DOMAIN movies

OwnedBy(u) == {id \in DOMAIN movies : movies[id]["uploadedBy"] = u}

\* GET /api/movies, up to the await of Movie.find.
GetMovies(p, u, q) ==
    /\ IF FindThrows(q)
       THEN /\ Respond(p, 500, Message("Server error while fetching movies"))
       ELSE Await(p, "count", Find(Query(q), q))
    /\ UNCHANGED <<movies, nextId, deleted>>

\* GET /api/movies, from Movie.countDocuments to the response.
GetMoviesCount(p) ==
    /\ pc[p] = "count" /\ req[p].op = "list"
    /\ Respond(p, 200, Listing(local[p], req[p].query, Cardinality(Query(req[p].query))))
    /\ UNCHANGED <<client, users, movies, nextId, deleted, req>>

\* GET /api/movies/user/my-movies, up to the await of Movie.find.
GetMyMovies(p, u, q) ==
    /\ IF FindThrows(q)
       THEN /\ Respond(p, 500, Message("Server error while fetching your movies"))
       ELSE Await(p, "count", Find(OwnedBy(u), q))
    /\ UNCHANGED <<movies, nextId, deleted>>

\* GET /api/movies/user/my-movies, from Movie.countDocuments to the response.
GetMyMoviesCount(p) ==
    /\ pc[p] = "count" /\ req[p].op = "my"
    /\ Respond(p, 200, Listing(local[p], req[p].query, Cardinality(OwnedBy(req[p].user))))
    /\ UNCHANGED <<client, users, movies, nextId, deleted, req>>

\* ------------------------------------------------------------ GET /:id
GetMovie(p, u, id) ==
    /\ IF FindById(id) = "found"
       THEN Respond(p, 200, Populate(movies[id], id))
       ELSE IF FindById(id) = "none"
       THEN Respond(p, 404, Message("Movie not found"))
       ELSE Respond(p, CatchStatus(FindById(id)), CatchMessage(FindById(id), "Server error while fetching movie"))
    /\ UNCHANGED <<movies, nextId, deleted>>

\* ------------------------------------------------------------- POST /
\* POST /api/movies, up to the await of movie.save(): the validators, the
\* findOne for a movie of this user with the trimmed title, new Movie(...).
PostMovie(p, u, b) ==
    /\ IF PostValidators(b) # {}
       THEN /\ Respond(p, 400, [errors |-> PostValidators(b)])
            /\ UNCHANGED nextId
       ELSE IF FindOne(trim(b["title"]), u) # {}
       THEN /\ Respond(p, 400, Message("You have already added a movie with this title"))
            /\ UNCHANGED nextId
       ELSE /\ nextId <= MaxMovies
            /\ Await(p, "save", [_id |-> nextId, doc |-> NewMovie(u, b, nextId)])
            /\ nextId' = nextId + 1
    /\ UNCHANGED <<movies, deleted>>

\* POST /api/movies, from movie.save() to the response: the schema validates
\* the document, a failure is thrown and caught as a server error.
PostMovieSave(p) ==
    /\ pc[p] = "save"
    /\ IF ValidateDoc(local[p].doc) # {}
       THEN /\ Respond(p, 500, Message("Server error while creating movie"))
            /\ UNCHANGED movies
       ELSE /\ movies' = With(movies, local[p]._id, local[p].doc)
            /\ Respond(p, 201, [message |-> "Movie added successfully",
                                movie |-> Populate(local[p].doc, local[p]._id)])
    /\ UNCHANGED <<client, users, nextId, deleted, req>>

\* ------------------------------------------------------------- PUT /:id
\* Mutant of PutMovie: the update looks for another movie of the user with
\* the new title, as the create does, and refuses it.
PutMovieUniqueTitle(p, u, id, b) ==
    /\ IF PutValidators(b) # {}
       THEN /\ Respond(p, 400, [errors |-> PutValidators(b)])
       ELSE IF FindById(id) = "none"
       THEN /\ Respond(p, 404, Message("Movie not found"))
       ELSE IF FindById(id) # "found"
       THEN /\ Respond(p, CatchStatus(FindById(id)), CatchMessage(FindById(id), "Server error while updating movie"))
       ELSE IF ~IsOwner(id, u)
       THEN /\ Respond(p, 403, Message("Not authorized to update this movie"))
       ELSE IF Has(b, "title") /\ FindOne(trim(b["title"]), u) \ {id} # {}
       THEN /\ Respond(p, 400, Message("You have already added a movie with this title"))
       ELSE Await(p, "write", Updates(b))
    /\ UNCHANGED <<movies, nextId, deleted>>

\* PUT /api/movies/:id, up to the await of findByIdAndUpdate: the validators,
\* findById, the ownership check, the updates object.
PutMovie(p, u, id, b) ==
    /\ IF PutValidators(b) # {}
       THEN /\ Respond(p, 400, [errors |-> PutValidators(b)])
       ELSE IF FindById(id) = "none"
       THEN /\ Respond(p, 404, Message("Movie not found"))
       ELSE IF FindById(id) # "found"
       THEN /\ Respond(p, CatchStatus(FindById(id)), CatchMessage(FindById(id), "Server error while updating movie"))
       ELSE IF ~IsOwner(id, u)
       THEN /\ Respond(p, 403, Message("Not authorized to update this movie"))
       ELSE Await(p, "write", Updates(b))
    /\ UNCHANGED <<movies, nextId, deleted>>

\* PUT /api/movies/:id, from findByIdAndUpdate to the response: the update
\* validators run on the updates and throw before anything is written; the
\* write finds the document by _id again and answers null when it is gone.
PutMovieWrite(p) ==
    /\ pc[p] = "write"
    /\ IF ValidateUpdate(Cast(local[p])) # {}
       THEN /\ Respond(p, 500, Message("Server error while updating movie"))
            /\ UNCHANGED movies
       ELSE IF req[p].id \in DOMAIN movies
       THEN /\ movies' = [movies EXCEPT ![req[p].id] = Assign(@, Cast(local[p]))]
            /\ Respond(p, 200, [message |-> "Movie updated successfully",
                                movie |-> Populate(movies'[req[p].id], req[p].id)])
       ELSE /\ UNCHANGED movies
            /\ Respond(p, 200, [message |-> "Movie updated successfully",
                                movie |-> NullDoc])
    /\ UNCHANGED <<client, users, nextId, deleted, req>>

\* ---------------------------------------------------------- DELETE /:id
\* DELETE /api/movies/:id, up to the await of findByIdAndDelete.
DeleteMovie(p, u, id) ==
    /\ IF FindById(id) = "none"
       THEN Respond(p, 404, Message("Movie not found"))
       ELSE IF FindById(id) # "found"
       THEN Respond(p, CatchStatus(FindById(id)), CatchMessage(FindById(id), "Server error while deleting movie"))
       ELSE IF ~IsOwner(id, u)
       THEN Respond(p, 403, Message("Not authorized to delete this movie"))
       ELSE Await(p, "remove", <<>>)
    /\ UNCHANGED <<movies, nextId, deleted>>

\* DELETE /api/movies/:id, from findByIdAndDelete to the response.
DeleteMovieRemove(p) ==
    /\ pc[p] = "remove"
    /\ movies' = Remove(req[p].id)
    /\ deleted' = deleted \cup ({req[p].id} \cap DOMAIN movies)
    /\ Respond(p, 200, Message("Movie deleted successfully"))
    /\ UNCHANGED <<client, users, nextId, req>>

\* The response of slot p has gone out: the request is over, the slot is idle.
Finish(p) ==
    /\ pc[p] = "done"
    /\ pc' = [pc EXCEPT ![p] = "idle"]
    /\ req' = [req EXCEPT ![p] = NoRequest]
    /\ resp' = [resp EXCEPT ![p] = NoResponse]
    /\ UNCHANGED <<client, users, movies, nextId, deleted, local>>

\* ---------------------------------------------------------------- Dashboard
\* The Dashboard runs in the browser of user A, signed in.
DashboardToken == Sign("A")
DashboardLimit == 12

\* moviesAPI.getMovies({ page, limit: 12, search: search || undefined, ... }):
\* the query string of the request; an undefined parameter is not sent, and
\* sortBy and sortOrder carry the defaults of the route.
GetMoviesParams(page, search) ==
    IF search # Empty
    THEN [page |-> page, limit |-> DashboardLimit, search |-> search]
    ELSE [page |-> page, limit |-> DashboardLimit]

\* fetchMovies(page, search), up to its await: called with the component in
\* `state`, it sets isLoading and clears error, and its request goes out
\* through slot p.  Every call issued before is no longer the latest.
fetchMovies(p, page, search, state) ==
    /\ Route(p, [NoRequest EXCEPT !.op = "list", !.token = DashboardToken,
                                  !.query = GetMoviesParams(page, search)],
             GetMovies(p, authenticate(DashboardToken).user,
                       GetMoviesParams(page, search)))
    /\ dashboard' = [state EXCEPT
            !.isLoading = TRUE, !.error = "",
            !.calls = {[c EXCEPT !.latest = FALSE] : c \in @}
                      \cup {[slot |-> p, latest |-> TRUE]},
            !.answer = NoResponse]
    /\ UNCHANGED formData

\* useEffect(() => { fetchMovies(); }, []): page 1, no search.
Mount(p) ==
    /\ ~dashboard.mounted
    /\ fetchMovies(p, 1, Empty, [dashboard EXCEPT !.mounted = TRUE])

\* handleSearch(term)
handleSearch(p, term) ==
    /\ dashboard.mounted
    /\ fetchMovies(p, 1, term,
                   [dashboard EXCEPT !.searchTerm = term, !.currentPage = 1])

\* fetchMovies after its await: the response of slot p has arrived.  A
\* success sets movies, currentPage and totalPages from it, a failure sets
\* error; either way isLoading is cleared.
fetchMoviesResume(p) ==
    /\ pc[p] = "done"
    /\ \E c \in dashboard.calls :
        /\ c.slot = p
        /\ dashboard' =
              [(IF resp[p].status = 200
                THEN [dashboard EXCEPT !.movies = resp[p].body.movies,
                                       !.currentPage = resp[p].body.currentPage,
                                       !.totalPages = resp[p].body.totalPages]
                ELSE [dashboard EXCEPT !.error =
                          IF Has(resp[p].body, "message")
                          THEN resp[p].body.message
                          ELSE "Failed to fetch movies"])
               EXCEPT !.isLoading = FALSE,
                      !.calls = @ \ {c},
                      !.answer = IF c.latest THEN resp[p] ELSE @]
    /\ pc' = [pc EXCEPT ![p] = "idle"]
    /\ req' = [req EXCEPT ![p] = NoRequest]
    /\ resp' = [resp EXCEPT ![p] = NoResponse]
    /\ UNCHANGED <<formData, users, movies, nextId, deleted, local>>

\* The requests of other clients end as before.
FinishOther(p) ==
    /\ \A c \in dashboard.calls : c.slot # p
    /\ formData[p] = <<>>
    /\ Finish(p)

\* ---------------------------------------------------------------- MovieForm
\* formData is a function from the fields that are not undefined to their
\* values.  The edit form opens on a movie with its fields copied in, genre
\* and posterUrl as '' when the movie has none.
Prefill(movie) ==
    [f \in (DOMAIN movie \cap (TextFields \cup NumberFields)) \cup {"genre", "posterUrl"} |->
        IF Has(movie, f) THEN movie[f] ELSE Empty]

\* Number(value) of the text of a number input.
Digit == [c \in {"0", "1", "2", "3", "4", "5", "6", "7", "8", "9"} |->
            CASE c = "0" -> 0 [] c = "1" -> 1 [] c = "2" -> 2 [] c = "3" -> 3
              [] c = "4" -> 4 [] c = "5" -> 5 [] c = "6" -> 6 [] c = "7" -> 7
              [] c = "8" -> 8 [] c = "9" -> 9]
RECURSIVE Number(_)
Number(s) ==
    IF s = <<>> THEN 0
    ELSE 10 * Number(SubSeq(s, 1, Len(s) - 1)) + Digit[s[Len(s)]]

\* handleInputChange: the input `name` now reads `value`; an emptied number
\* input is undefined, any other is Number(value).
handleInputChange(fd, name, value) ==
    IF name \in NumberFields
    THEN IF value = Empty
         THEN [f \in DOMAIN fd \ {name} |-> fd[f]]
         ELSE With(fd, name, Number(value))
    ELSE With(fd, name, value)

\* The form after the changes of `edits`, in order.
RECURSIVE Typed(_, _)
Typed(fd, edits) ==
    IF edits = <<>> THEN fd
    ELSE Typed(handleInputChange(fd, Head(edits).name, Head(edits).value), Tail(edits))

\* Mutant of CleanedData: an optional field is sent whenever the form holds a
\* value for it, an empty text and 0 included.
CleanedDataPresent(fd) ==
    [f \in DOMAIN fd |-> IF f \in TextFields THEN trim(fd[f]) ELSE fd[f]]

\* cleanedData of handleSubmit: title and description trimmed; an optional
\* field only when its (trimmed) value is truthy.
CleanedData(fd) ==
    LET b == [title |-> trim(fd["title"]), description |-> trim(fd["description"])]
        g == IF Has(fd, "genre") /\ trim(fd["genre"]) # Empty
             THEN With(b, "genre", trim(fd["genre"])) ELSE b
        y == IF Truthy(fd, "releaseYear") THEN With(g, "releaseYear", fd["releaseYear"]) ELSE g
        r == IF Truthy(fd, "rating") THEN With(y, "rating", fd["rating"]) ELSE y
    IN  IF Has(fd, "posterUrl") /\ trim(fd["posterUrl"]) # Empty
        THEN With(r, "posterUrl", trim(fd["posterUrl"])) ELSE r

\* handleSubmit of the edit form opened on the stored movie id and changed by
\* `edits`, up to its await: moviesAPI.updateMovie(movie._id, cleanedData)
\* goes out through slot p with the token of user u.  The submit button is
\* disabled while a submission is loading or the title or the description is
\* blank.
handleSubmit(p, u, id, edits) ==
    /\ \A q \in Procs : formData[q] = <<>>
    /\ id \in DOMAIN movies
    /\ LET fd == Typed(Prefill(movies[id]), edits)
       IN  /\ trim(fd["title"]) # Empty /\ trim(fd["description"]) # Empty
           /\ Route(p, [NoRequest EXCEPT !.op = "put", !.token = Sign(u), !.id = id,
                                        !.body = CleanedData(fd)],
                    PutMovie(p, authenticate(Sign(u)).user, id, CleanedData(fd)))
           /\ formData' = [formData EXCEPT ![p] = fd]
    /\ UNCHANGED dashboard

\* handleMovieUpdated(updatedMovie): the movie replaces the one of its _id in
\* the list the Dashboard shows.
handleMovieUpdated(list, updatedMovie) ==
    [i \in DOMAIN list |->
        IF list[i]["_id"] = updatedMovie["_id"] THEN updatedMovie ELSE list[i]]

\* handleSubmit after its await: onSuccess(response.movie) on a success (the
\* form closes), the error is shown in the form otherwise.
handleSubmitResume(p) ==
    /\ pc[p] = "done"
    /\ formData[p] # <<>>
    /\ dashboard' = IF resp[p].status = 200
                    THEN [dashboard EXCEPT
                            !.movies = handleMovieUpdated(@, resp[p].body.movie)]
                    ELSE dashboard
    /\ formData' = [formData EXCEPT ![p] = <<>>]
    /\ pc' = [pc EXCEPT ![p] = "idle"]
    /\ req' = [req EXCEPT ![p] = NoRequest]
    /\ resp' = [resp EXCEPT ![p] = NoResponse]
    /\ UNCHANGED <<users, movies, nextId, deleted, local>>

\* ------------------------------------------------------------ auth routes
\* The _ids of the User collection, in the order they are handed out.
UserIds == <<"A", "B">>

\* Bodies of POST /api/auth/register.
RegisterBodies ==
    { [username |-> n, email |-> e, password |-> "pw1"] : n \in {"ann", "bob"}, e \in {"a@x", "b@x"} }
    \cup { [username |-> "ann", email |-> "a@x"], [email |-> "b@x", password |-> "pw1"] }

\* Credentials of POST /api/auth/login.
LoginBodies ==
    { [email |-> e, password |-> w] : e \in {"a@x", "b@x"}, w \in {"pw1", "pw1 ", ""} }

\* The public fields of an account: id, username, email.
PublicUser(u) == [id |-> u, username |-> users[u].username, email |-> users[u].email]

\* Mutant of Taken: only the username is looked up.
TakenUsername(b) == {u \in DOMAIN users : users[u].username = b.username}

\* The accounts that hold the username or the email of a register body.
Taken(b) ==
    {u \in DOMAIN users : users[u].username = b.username \/ users[u].email = b.email}

\* register(username, email, password): a ValidationError when a field is
\* missing or the username or email is taken; else the account is stored and
\* the answer carries a token signed for it and its public fields.
Register(p, b) ==
    /\ Accept(p, [NoRequest EXCEPT !.op = "register", !.body = b])
    /\ IF {f \in {"username", "email", "password"} : ~Has(b, f)} # {}
       THEN /\ Respond(p, 400, [errors |-> {f \in {"username", "email", "password"} : ~Has(b, f)}])
            /\ UNCHANGED users
       ELSE IF Taken(b) # {}
       THEN /\ Respond(p, 400, Message("User already exists"))
            /\ UNCHANGED users
       ELSE LET id == UserIds[Cardinality(DOMAIN users) + 1]
            IN  /\ users' = With(users, id, Account(b.username, b.email, b.password))
                /\ Respond(p, 201, [message |-> "User registered successfully",
                                    token |-> Sign(id),
                                    user |-> [id |-> id, username |-> b.username,
                                              email |-> b.email]])
    /\ UNCHANGED <<client, movies, nextId, deleted>>

\* login(email, password): an AuthError when no account has the email or the
\* hash comparison fails; else the same answer as register.
Login(p, b) ==
    /\ Accept(p, [NoRequest EXCEPT !.op = "login", !.body = b])
    /\ LET found == {u \in DOMAIN users : users[u].email = b.email}
       IN  IF found = {} \/ \A u \in found : users[u].password # Hash(b.password)
           THEN Respond(p, 401, Message("Invalid credentials"))
           ELSE \E u \in found :
                    Respond(p, 200, [message |-> "Login successful",
                                     token |-> Sign(u), user |-> PublicUser(u)])
    /\ UNCHANGED <<client, users, movies, nextId, deleted>>

\* The "current user" lookup behind the access guard.
GetMe(p, u) ==
    /\ Respond(p, 200, PublicUser(u))
    /\ UNCHANGED <<movies, nextId, deleted>>

\* ------------------------------------------------------------ behaviours
\* No request is being handled.
Quiet == \A p \in Procs : Free(p)

\* The steps that continue a handler after an await.
Continue(p) ==
    \/ GetMoviesCount(p)
    \/ GetMyMoviesCount(p)
    \/ PostMovieSave(p)
    \/ PutMovieWrite(p)
    \/ DeleteMovieRemove(p)
    \/ Finish(p)

\* A request arrives at the route: router.METHOD(path, auth, handler), its
\* token, id, body and query string drawn from the given sets.
ListRoute(p, tokens, queries) ==
    \E t \in tokens, q \in queries :
        /\ Route(p, [NoRequest EXCEPT !.op = "list", !.token = t, !.query = q],
              GetMovies(p, authenticate(t).user, q))
        /\ UNCHANGED client

MyRoute(p, tokens, queries) ==
    \E t \in tokens, q \in queries :
        /\ Route(p, [NoRequest EXCEPT !.op = "my", !.token = t, !.query = q],
              GetMyMovies(p, authenticate(t).user, q))
        /\ UNCHANGED client

GetRoute(p, tokens) ==
    \E t \in tokens, id \in RequestIds :
        /\ Route(p, [NoRequest EXCEPT !.op = "get", !.token = t, !.id = id],
              GetMovie(p, authenticate(t).user, id))
        /\ UNCHANGED client

PostRoute(p, tokens, posts) ==
    \E t \in tokens, b \in posts :
        /\ Route(p, [NoRequest EXCEPT !.op = "post", !.token = t, !.body = b],
              PostMovie(p, authenticate(t).user, b))
        /\ UNCHANGED client

PutRoute(p, tokens, puts) ==
    \E t \in tokens, id \in RequestIds, b \in puts :
        /\ Route(p, [NoRequest EXCEPT !.op = "put", !.token = t, !.id = id, !.body = b],
              PutMovie(p, authenticate(t).user, id, b))
        /\ UNCHANGED client

DeleteRoute(p, tokens) ==
    \E t \in tokens, id \in RequestIds :
        /\ Route(p, [NoRequest EXCEPT !.op = "delete", !.token = t, !.id = id],
              DeleteMovie(p, authenticate(t).user, id))
        /\ UNCHANGED client

\* A request arrives at slot p.
Arrive(p, tokens, posts, puts, queries) ==
    \/ ListRoute(p, tokens, queries)
    \/ MyRoute(p, tokens, queries)
    \/ GetRoute(p, tokens)
    \/ PostRoute(p, tokens, posts)
    \/ PutRoute(p, tokens, puts)
    \/ DeleteRoute(p, tokens)

\* Concurrent requests: a request arrives at any free slot while the handler
\* of the other slot is at an await.
ConcPostBodies == { [title |-> Dune, description |-> Saga] }

ConcPutBodies == { [rating |-> 9, genre |-> Empty], [title |-> Empty] }

ConcQueries == { [page |-> 1, limit |-> 1] }

ConcTokens == UserTokens

\* Requests one at a time: a request arrives when no handler is running; it
\* carries the token of a user and any of the inputs, or a token the guard
\* refuses.
Next ==
    \E p \in Procs :
        \/ Quiet /\ p = 1 /\ Arrive(p, UserTokens, PostBodies, PutBodies, Queries)
        \/ Quiet /\ p = 1 /\ Arrive(p, BadTokens, ConcPostBodies, ConcPutBodies, ConcQueries)
        \/ Continue(p)

Spec == Init /\ [][Next]_vars

NextConc ==
    \E p \in Procs : Arrive(p, ConcTokens, ConcPostBodies, ConcPutBodies, ConcQueries) \/ Continue(p)

SpecConc == Init /\ [][NextConc]_vars

\* Creates and updates of one user alone: two updates of one movie interleave
\* at their awaits; the two bodies share the title, and each carries a field
\* the other does not.
UpdateBodies ==
    { [title |-> Arrival, rating |-> 9],
      [title |-> Pad(Dune), genre |-> SciFi] }

NextUpdates ==
    \E p \in Procs :
        \/ PostRoute(p, {Sign("A")}, ConcPostBodies)
        \/ PutRoute(p, {Sign("A")}, UpdateBodies)
        \/ PostMovieSave(p)
        \/ PutMovieWrite(p)
        \/ Finish(p)

SpecUpdates == Init /\ [][NextUpdates]_vars

\* Creates and deletes alone, interleaved at their awaits: no update runs.
NextCreateDelete ==
    \E p \in Procs :
        \/ PostRoute(p, ConcTokens, ConcPostBodies)
        \/ DeleteRoute(p, ConcTokens)
        \/ PostMovieSave(p)
        \/ DeleteMovieRemove(p)
        \/ Finish(p)

SpecCreateDelete == Init /\ [][NextCreateDelete]_vars

\* Creates and reads alone: a getOne arrives at one slot while the other
\* still holds an answered create.
NextRoundTrip ==
    \E p \in Procs :
        \/ PostRoute(p, ConcTokens, PostBodies)
        \/ GetRoute(p, ConcTokens)
        \/ PostMovieSave(p)
        \/ Finish(p)

SpecRoundTrip == Init /\ [][NextRoundTrip]_vars

\* The session issuer and the access guard alone, from an empty User
\* collection: register, login and the current-user lookup.
InitAuth ==
    /\ users = <<>>
    /\ movies = <<>>
    /\ nextId = 1
    /\ deleted = {}
    /\ pc = [p \in Procs |-> "idle"]
    /\ req = [p \in Procs |-> NoRequest]
    /\ local = [p \in Procs |-> <<>>]
    /\ resp = [p \in Procs |-> NoResponse]
    /\ dashboard = InitialDashboard
    /\ formData = [p \in Procs |-> <<>>]

NextAuth ==
    \E p \in Procs :
        \/ \E b \in RegisterBodies : Register(p, b)
        \/ \E b \in LoginBodies : Login(p, b)
        \/ \E t \in Tokens :
                /\ Route(p, [NoRequest EXCEPT !.op = "me", !.token = t],
                         GetMe(p, authenticate(t).user))
                /\ UNCHANGED client
        \/ Finish(p)

SpecAuth == InitAuth /\ [][NextAuth]_vars

\* The Dashboard of user A, while another client fills the library: the
\* searches a user types, and the responses in any order.  The page buttons
\* are rendered for totalPages > 1 only, that is for more than DashboardLimit
\* movies, so handlePageChange is never called in a library of MaxMovies.
SearchTerms == {Empty, <<"d", "u", "n", "e">>, <<"s", "c", "i">>}
LibraryBodies == {[title |-> Dune, description |-> Saga],
                  [title |-> Arrival, description |-> SciFi]}

NextDashboard ==
    \E p \in Procs :
        \/ Mount(p)
        \/ \E term \in SearchTerms : handleSearch(p, term)
        \/ GetMoviesCount(p)
        \/ fetchMoviesResume(p)
        \/ PostRoute(p, {Sign("B")}, LibraryBodies)
        \/ PostMovieSave(p)
        \/ FinishOther(p)

SpecDashboard == Init /\ [][NextDashboard]_vars

\* The edit form of the owner A on the movies A has added: what a user types
\* into it before submitting.
FormBodies == {[title |-> Arrival, description |-> Saga, genre |-> SciFi,
                releaseYear |-> 2021, rating |-> 9, posterUrl |-> Url],
               [title |-> Dune, description |-> Saga]}
Edit(name, value) == [name |-> name, value |-> value]
FormEdits ==
    { <<>>,
      <<Edit("genre", Empty)>>,
      <<Edit("genre", Blank)>>,
      <<Edit("posterUrl", Empty)>>,
      <<Edit("posterUrl", Blank)>>,
      <<Edit("releaseYear", Empty)>>,
      <<Edit("releaseYear", <<"0">>)>>,
      <<Edit("rating", Empty)>>,
      <<Edit("rating", <<"0">>)>>,
      <<Edit("genre", Empty), Edit("rating", <<"0">>)>>,
      <<Edit("genre", Pad(Saga)), Edit("rating", <<"1", "0">>)>>,
      <<Edit("title", Blank)>> }

NextForm ==
    \E p \in Procs :
        \/ PostRoute(p, {Sign("A")}, FormBodies)
        \/ PostMovieSave(p)
        \/ \E id \in ObjectIds, edits \in FormEdits : handleSubmit(p, "A", id, edits)
        \/ PutMovieWrite(p)
        \/ handleSubmitResume(p)
        \/ FinishOther(p)

SpecForm == Init /\ [][NextForm]_vars

\* ================================================================= claims
\* The request is one of a user: the access guard has let it through.
ByUser(r) == r.user # NoUser

\* The step is the arrival of a request of kind op, of a user, at slot p.
Arrives(p, op) ==
    /\ Free(p)
    /\ pc'[p] # "idle"
    /\ req'[p].op = op
    /\ ByUser(req'[p])

\* The step is the one in which the handler of slot p sends its response.
Responds(p) == pc[p] # "done" /\ pc'[p] = "done"

\* The bounds of the Movie model as the specification states them (section 3):
\* the fields of a body that break them.
BoundViolations(b) ==
    {f \in {"title", "description"} : Has(b, f) /\ trim(b[f]) = Empty}
    \cup (IF Has(b, "title") /\ Len(b["title"]) > 200 THEN {"title"} ELSE {})
    \cup (IF Has(b, "description") /\ Len(b["description"]) > 1000 THEN {"description"} ELSE {})
    \cup (IF Has(b, "genre") /\ Len(b["genre"]) > 50 THEN {"genre"} ELSE {})
    \cup (IF Has(b, "releaseYear") /\ b["releaseYear"] \notin 1900..(CurrentYear + 5)
          THEN {"releaseYear"} ELSE {})
    \cup (IF Has(b, "rating") /\ b["rating"] \notin 0..10 THEN {"rating"} ELSE {})

\* A create input breaks a bound also when a required field is missing.
CreateViolations(b) ==
    BoundViolations(b) \cup {f \in {"title", "description"} : ~Has(b, f)}

\* The request of slot p after the step is by a user who does not own the
\* stored movie it names.
ByNonOwner(p) ==
    /\ req'[p].id \in DOMAIN movies
    /\ movies[req'[p].id]["uploadedBy"] # req'[p].user

\* The body of an update is one the request validators of the route refuse:
\* a title or description that is sent empty or too long.
RefusedOnArrival(b) ==
    \/ Has(b, "title") /\ (b["title"] = Empty \/ Len(b["title"]) > 200)
    \/ Has(b, "description") /\ (b["description"] = Empty \/ Len(b["description"]) > 1000)

\* C1 (as stated): an update or a delete of a stored movie by a user who is
\* not its owner is answered 403 in the step it arrives, and the collection
\* is the same after the step as before it.
C1_NonOwnerAlwaysForbidden ==
    [][\A p \in Procs :
        (Arrives(p, "put") \/ Arrives(p, "delete")) /\ ByNonOwner(p)
        => pc'[p] = "done" /\ resp'[p].status = 403 /\ movies' = movies]_vars

\* C1 (amended): an update or a delete of a stored movie by a user who is not
\* its owner never succeeds and changes nothing: it is answered 403, except
\* that an update whose title or description is sent empty or too long is
\* answered 400 with the validation errors before ownership is looked at.
C1_NonOwnerRefused ==
    [][\A p \in Procs :
        (Arrives(p, "put") \/ Arrives(p, "delete")) /\ ByNonOwner(p)
        => /\ pc'[p] = "done"
           /\ movies' = movies
           /\ IF req'[p].op = "put" /\ RefusedOnArrival(req'[p].body)
              THEN resp'[p].status = 400 /\ Has(resp'[p].body, "errors")
              ELSE resp'[p].status = 403]_vars

\* C1 witness: a non-owner's update of a stored movie has been answered 403.
C1_Witness ==
    \E p \in Procs :
        /\ pc[p] = "done" /\ req[p].op = "put" /\ resp[p].status = 403
        /\ req[p].id \in DOMAIN movies
        /\ movies[req[p].id]["uploadedBy"] # req[p].user

\* C2: a stored movie keeps its uploadedBy in every step, and a movie that
\* enters the collection has the uploadedBy of the user whose create request
\* is being saved.
C2_UploadedByFixed ==
    [][\A id \in DOMAIN movies' :
        IF id \in DOMAIN movies
        THEN movies'[id]["uploadedBy"] = movies[id]["uploadedBy"]
        ELSE \E p \in Procs :
                /\ req[p].op = "post" /\ pc[p] = "save" /\ pc'[p] = "done"
                /\ resp'[p].status = 201 /\ resp'[p].body["movie"]["_id"] = id
                /\ movies'[id]["uploadedBy"] = req[p].user]_vars

\* C2 witness: the owner's update that carried an uploadedBy field of another
\* user has succeeded.
C2_Witness ==
    \E p \in Procs :
        /\ pc[p] = "done" /\ req[p].op = "put" /\ resp[p].status = 200
        /\ Has(req[p].body, "uploadedBy") /\ req[p].body["uploadedBy"] # req[p].user
        /\ req[p].id \in DOMAIN movies

\* The user u owns a movie with the title t.
OwnsTitle(u, t) ==
    \E id \in DOMAIN movies : movies[id]["uploadedBy"] = u /\ movies[id]["title"] = t

\* C3: with requests one at a time, a create within the bounds whose trimmed
\* title the user already owns is answered 400 (duplicate title) and stores
\* nothing; otherwise, whether or not another user owns that title, it goes
\* on to save, is answered 201 and stores one new movie of that title owned by
\* the user.
C3_DuplicateTitlePerOwner ==
    [][\A p \in Procs :
        /\ (Arrives(p, "post") /\ CreateViolations(req'[p].body) = {}
            => IF OwnsTitle(req'[p].user, trim(req'[p].body["title"]))
               THEN /\ pc'[p] = "done" /\ resp'[p].status = 400
                    /\ Has(resp'[p].body, "message")
                    /\ movies' = movies
               ELSE pc'[p] = "save" /\ movies' = movies)
        /\ (pc[p] = "save" /\ CreateViolations(req[p].body) = {}
            => /\ resp'[p].status = 201
               /\ \E id \in DOMAIN movies' \ DOMAIN movies :
                    /\ movies'[id]["uploadedBy"] = req[p].user
                    /\ movies'[id]["title"] = trim(req[p].body["title"])
                    /\ DOMAIN movies' = DOMAIN movies \cup {id}
                    /\ \A i \in DOMAIN movies : movies'[i] = movies[i])]_vars

\* C3 witness: user B's create of a title that user A owns has been answered
\* 201, and both movies are stored.
C3_Witness ==
    \E p \in Procs :
        /\ pc[p] = "done" /\ req[p].op = "post" /\ resp[p].status = 201
        /\ \E i, j \in DOMAIN movies :
            /\ movies[i]["title"] = movies[j]["title"]
            /\ movies[i]["uploadedBy"] # movies[j]["uploadedBy"]
            /\ j = resp[p].body["movie"]["_id"]

\* C4 (as stated): a create whose body breaks a bound of the Movie model is
\* answered 400 with an error for every field in violation, and the
\* collection is unchanged.
C4_CreateViolationsListed ==
    [][\A p \in Procs :
        /\ Responds(p) /\ req'[p].op = "post" /\ ByUser(req'[p])
        /\ CreateViolations(req'[p].body) # {}
        => /\ resp'[p].status = 400
           /\ Has(resp'[p].body, "errors")
           /\ CreateViolations(req'[p].body) \subseteq {e.path : e \in resp'[p].body["errors"]}
           /\ movies' = movies]_vars

\* The six fields an update may carry.
UpdatableFields == {"title", "description", "genre", "releaseYear", "rating", "posterUrl"}

\* The step is the write of an update that is answered 200 with the movie.
UpdateSucceeds(p) ==
    /\ req[p].op = "put" /\ pc[p] = "write" /\ pc'[p] = "done"
    /\ resp'[p].status = 200
    /\ req[p].id \in DOMAIN movies

\* Everything but the fields the body of the update of slot p carries is as
\* before the step.
UpdateFrame(p) ==
    /\ DOMAIN movies' = DOMAIN movies
    /\ \A i \in DOMAIN movies \ {req[p].id} : movies'[i] = movies[i]
    /\ \A f \in (DOMAIN movies[req[p].id] \cup DOMAIN movies'[req[p].id])
                    \ (UpdatableFields \cap DOMAIN req[p].body) :
            /\ Has(movies[req[p].id], f) /\ Has(movies'[req[p].id], f)
            /\ movies'[req[p].id][f] = movies[req[p].id][f]

\* C5 (as stated): a successful update leaves every field that is absent from
\* the body as it was and sets every field that is present to the value the
\* body carries.
C5_UpdateWritesBodyValues ==
    [][\A p \in Procs :
        UpdateSucceeds(p)
        => /\ UpdateFrame(p)
           /\ \A f \in UpdatableFields \cap DOMAIN req[p].body :
                /\ Has(movies'[req[p].id], f)
                /\ movies'[req[p].id][f] = req[p].body[f]]_vars

\* C5 (amended): a successful update leaves every field that is absent from
\* the body as it was and sets every field that is present, an explicit empty
\* string included, to the value the body carries, a text value with its
\* leading and trailing whitespace removed.
C5_UpdateWritesTrimmedValues ==
    [][\A p \in Procs :
        UpdateSucceeds(p)
        => /\ UpdateFrame(p)
           /\ \A f \in UpdatableFields \cap DOMAIN req[p].body :
                /\ Has(movies'[req[p].id], f)
                /\ movies'[req[p].id][f] =
                     IF f \in {"title", "description", "genre", "posterUrl"}
                     THEN trim(req[p].body[f]) ELSE req[p].body[f]]_vars

\* C5 witness: the update { rating, genre: "" } of a movie created with a
\* genre and a release year has succeeded: the genre is the empty string, the
\* release year is still there.
C5_Witness ==
    \E p \in Procs :
        /\ pc[p] = "done" /\ req[p].op = "put" /\ resp[p].status = 200
        /\ Has(req[p].body, "genre") /\ req[p].body["genre"] = Empty
        /\ ~Has(req[p].body, "releaseYear")
        /\ req[p].id \in DOMAIN movies
        /\ Has(movies[req[p].id], "releaseYear")
        /\ movies[req[p].id]["genre"] = Empty

\* C6 (as stated): an update by the owner whose body breaks a bound of the
\* Movie model is answered 400, and the collection is unchanged.
C6_UpdateViolationsRejected ==
    [][\A p \in Procs :
        /\ Responds(p) /\ req'[p].op = "put"
        /\ req'[p].id \in DOMAIN movies
        /\ movies[req'[p].id]["uploadedBy"] = req'[p].user
        /\ BoundViolations(req'[p].body) # {}
        => resp'[p].status = 400 /\ movies' = movies]_vars

\* The answer of the /:id routes to an id that matches no document.
NotFound == [status |-> 404, body |-> [message |-> "Movie not found"]]

\* The movies a list handler has found, or has sent, name the _id.
Lists(found, id) == \E i \in DOMAIN found : found[i]["_id"] = id

\* Once deleted, a movie is never stored again, and every list request that
\* arrives later finds, and then sends, movies without it.
DeletedStaysGone(id) ==
    /\ id \notin DOMAIN movies'
    /\ \A p \in Procs :
        /\ (Arrives(p, "list") \/ Arrives(p, "my")) /\ pc'[p] = "count"
            => ~Lists(local'[p], id)
        /\ pc[p] = "count" /\ pc'[p] = "done" /\ resp'[p].status = 200
            => resp'[p].body["movies"] = local[p]

\* C7 (as stated): once a delete has removed a movie, the movie is never
\* stored again, whatever the handlers in flight go on to do; every getOne,
\* update and delete of its id that arrives later is answered 404; no list
\* request that arrives later returns it.
C7_DeletedIsNotFound ==
    [][\A id \in deleted :
        /\ DeletedStaysGone(id)
        /\ \A p \in Procs :
            (Arrives(p, "get") \/ Arrives(p, "put") \/ Arrives(p, "delete"))
                /\ req'[p].id = id
            => pc'[p] = "done" /\ resp'[p] = NotFound]_vars

\* C7 (amended): as stated, except that an update of the deleted id whose
\* title or description is sent empty or too long is answered 400 with the
\* validation errors, not 404.
C7_DeletedIsGone ==
    [][\A id \in deleted :
        /\ DeletedStaysGone(id)
        /\ \A p \in Procs :
            (Arrives(p, "get") \/ Arrives(p, "put") \/ Arrives(p, "delete"))
                /\ req'[p].id = id
            => /\ pc'[p] = "done"
               /\ IF req'[p].op = "put" /\ RefusedOnArrival(req'[p].body)
                  THEN resp'[p].status = 400 /\ Has(resp'[p].body, "errors")
                  ELSE resp'[p] = NotFound]_vars

\* C7 witness: an update that was in flight when its movie was deleted has
\* finished (answered 200 with no movie), a getOne of the id that arrived
\* after the delete has been answered 404, and the movie is not stored.
C7_Witness ==
    \E p, q \in Procs :
        /\ pc[p] = "done" /\ req[p].op = "put" /\ req[p].id \in deleted
        /\ resp[p].status = 200 /\ DOMAIN resp[p].body["movie"] = {}
        /\ pc[q] = "done" /\ req[q].op = "get" /\ req[q].id = req[p].id
        /\ resp[q] = NotFound
        /\ req[p].id \notin DOMAIN movies

\* C8: with requests one at a time, a getOne of a user that has been answered carries
\* the stored record (its fields, its _id, its owner) with status 200 when a
\* movie with the id is stored, whoever asks, and is answered 404 "Movie not
\* found" otherwise, for a malformed id as for an id that matches no record.
C8_GetOne ==
    \A p \in Procs :
        pc[p] = "done" /\ req[p].op = "get" /\ ByUser(req[p])
        => IF req[p].id \in DOMAIN movies
           THEN /\ resp[p].status = 200
                /\ DOMAIN resp[p].body = DOMAIN movies[req[p].id] \cup {"_id"}
                /\ resp[p].body["_id"] = req[p].id
                /\ resp[p].body["uploadedBy"]["_id"] = movies[req[p].id]["uploadedBy"]
                /\ \A f \in DOMAIN movies[req[p].id] \ {"uploadedBy"} :
                        resp[p].body[f] = movies[req[p].id][f]
           ELSE resp[p] = NotFound

\* C8 witness: a getOne of a malformed id has been answered 404 while a movie
\* is stored.
C8_Witness ==
    \E p \in Procs :
        /\ pc[p] = "done" /\ req[p].op = "get" /\ req[p].id \in MalformedIds
        /\ resp[p].status = 404
        /\ movies # <<>>

\* The movies a list request of slot p matches.
Matching(p) ==
    IF req[p].op = "my"
    THEN {id \in DOMAIN movies : movies[id]["uploadedBy"] = req[p].user}
    ELSE DOMAIN movies

\* The page and the limit a list request asks for (1 and 10 when not given).
AskedPage(p) == IF Has(req[p].query, "page") THEN req[p].query["page"] ELSE 1
AskedLimit(p) == IF Has(req[p].query, "limit") THEN req[p].query["limit"] ELSE 10

\* A list request of a user at slot p has been answered.
Listed(p) == pc[p] = "done" /\ req[p].op \in {"list", "my"} /\ ByUser(req[p])

\* C9 (as stated): with requests one at a time, every list request, whatever
\* its page and limit, is answered 200 with totalMovies the number of matching
\* movies and totalPages ceil(totalMovies / limit), and a page outside
\* 1..totalPages comes with no movies.
C9_ListTotals ==
    \A p \in Procs :
        Listed(p)
        => /\ resp[p].status = 200
           /\ resp[p].body["totalMovies"] = Cardinality(Matching(p))
           /\ AskedLimit(p) > 0
                => resp[p].body["totalPages"] * AskedLimit(p) >= Cardinality(Matching(p))
                   /\ (resp[p].body["totalPages"] - 1) * AskedLimit(p) < Cardinality(Matching(p))
           /\ AskedPage(p) \notin 1..resp[p].body["totalPages"]
                => resp[p].body["movies"] = <<>>

\* C10 (as stated): in every list response, currentPage * limit >= totalMovies
\* exactly when currentPage = totalPages.
C10_LastPageExactly ==
    \A p \in Procs :
        Listed(p) /\ resp[p].status = 200
        => (resp[p].body["currentPage"] * AskedLimit(p) >= resp[p].body["totalMovies"]
            <=> resp[p].body["currentPage"] = resp[p].body["totalPages"])

\* C10 (amended): in every list response to a request with a limit of at
\* least 1, currentPage * limit >= totalMovies exactly when currentPage >=
\* totalPages: among the pages 1..totalPages it is true on the last page
\* alone, and it is true as well on every page past the last (and on page 1
\* of an empty listing, where totalPages is 0).
C10_LastPageOrBeyond ==
    \A p \in Procs :
        Listed(p) /\ resp[p].status = 200 /\ AskedLimit(p) >= 1
        => (resp[p].body["currentPage"] * AskedLimit(p) >= resp[p].body["totalMovies"]
            <=> resp[p].body["currentPage"] >= resp[p].body["totalPages"])

\* C10 witness: the first of two pages has been listed (the predicate is
\* false there).
C10_Witness ==
    \E p \in Procs :
        /\ Listed(p) /\ resp[p].status = 200 /\ AskedLimit(p) >= 1
        /\ resp[p].body["totalPages"] = 2 /\ resp[p].body["currentPage"] = 1
        /\ Len(resp[p].body["movies"]) = 1

\* The six movie operations.
MovieOps == {"list", "my", "get", "post", "put", "delete"}

\* The step is the arrival at slot p of a movie request whose token the
\* access guard refuses (none, not verifying, or of no stored account).
ArrivesUnauthenticated(p) ==
    /\ Free(p)
    /\ pc'[p] # "idle"
    /\ req'[p].op \in MovieOps
    /\ authenticate(req'[p].token).error # NoError

\* C11: a request for any of the six movie operations that carries no valid
\* bearer token is answered 401 in the step it arrives, with the AuthError
\* message and nothing else in the body; no handler step follows (no user is
\* attached, nothing is awaited, no ObjectId is handed out) and the movie
\* store is unchanged; and no arrival step, whatever its token, changes the
\* stored accounts or the stored movies.
C11_GuardBeforeHandler ==
    [][\A p \in Procs :
        /\ ArrivesUnauthenticated(p)
            => /\ pc'[p] = "done"
               /\ resp'[p].status = 401
               /\ DOMAIN resp'[p].body = {"message"}
               /\ resp'[p].body["message"] = authenticate(req'[p].token).error
               /\ req'[p].user = NoUser
               /\ local'[p] = <<>>
               /\ nextId' = nextId
               /\ movies' = movies
        /\ Free(p) /\ pc'[p] # "idle"
            => users' = users /\ movies' = movies]_vars

\* C11 witness: a delete of a stored movie that carried a token naming the
\* movie's owner, with a signature that does not verify, has been answered
\* 401, and the movie is stored.
C11_Witness ==
    \E p \in Procs :
        /\ pc[p] = "done" /\ req[p].op = "delete" /\ resp[p].status = 401
        /\ req[p].token = Forged("A")
        /\ req[p].id \in DOMAIN movies
        /\ movies[req[p].id]["uploadedBy"] = "A"

\* A register call of slot p has been answered with a token.
Registers(p) == pc[p] = "done" /\ req[p].op = "register" /\ resp[p].status = 201

\* C12: after any sequence of register calls (and logins and current-user
\* lookups between them), no two distinct stored accounts share a username or
\* an email; and the token a successful register returned, passed to
\* authenticate, resolves without error to the account that register
\* stored: the id in its answer, holding the username and the email of its
\* body.
C12_RegisterUniqueAndTokenResolves ==
    /\ \A i, j \in DOMAIN users :
            i # j => /\ users[i].username # users[j].username
                     /\ users[i].email # users[j].email
    /\ \A p \in Procs :
            Registers(p)
            => /\ authenticate(resp[p].body["token"]).error = NoError
               /\ authenticate(resp[p].body["token"]).user = resp[p].body["user"].id
               /\ resp[p].body["user"].id \in DOMAIN users
               /\ users[resp[p].body["user"].id].username = req[p].body.username
               /\ users[resp[p].body["user"].id].email = req[p].body.email

\* C12 witness: two accounts are stored, the second register has just been
\* answered, and a current-user lookup with the token of the first account
\* has been answered with that account.
C12_Witness ==
    \E p, q \in Procs :
        /\ Registers(p) /\ resp[p].body["user"].id = "B"
        /\ Cardinality(DOMAIN users) = 2
        /\ pc[q] = "done" /\ req[q].op = "me" /\ resp[q].status = 200
        /\ req[q].token = Sign("A") /\ resp[q].body.id = "A"

\* C13: a my-movies request of user U that returns a page returns only movies
\* whose uploadedBy is U, every one of them a stored movie, and its
\* totalMovies is the number of stored movies that U owns: the movies of
\* other users are neither returned nor counted.
C13_MyMoviesOwnedOnly ==
    [][\A p \in Procs :
        req[p].op = "my" /\ pc[p] = "count" /\ pc'[p] = "done"
        => /\ resp'[p].status = 200
           /\ \A i \in DOMAIN resp'[p].body["movies"] :
                /\ resp'[p].body["movies"][i]["uploadedBy"]["_id"] = req[p].user
                /\ resp'[p].body["movies"][i]["_id"] \in DOMAIN movies
                /\ movies[resp'[p].body["movies"][i]["_id"]]["uploadedBy"] = req[p].user
           /\ resp'[p].body["totalMovies"] =
                Cardinality({id \in DOMAIN movies : movies[id]["uploadedBy"] = req[p].user})]_vars

\* C13 witness: user A's my-movies request has returned A's one movie with
\* totalMovies 1 while a movie of user B is stored as well.
C13_Witness ==
    \E p \in Procs :
        /\ pc[p] = "done" /\ req[p].op = "my" /\ req[p].user = "A"
        /\ resp[p].status = 200
        /\ Len(resp[p].body["movies"]) = 1 /\ resp[p].body["totalMovies"] = 1
        /\ \E i, j \in DOMAIN movies :
                movies[i]["uploadedBy"] = "A" /\ movies[j]["uploadedBy"] = "B"

\* The fields of a create input the round trip compares.
RoundTripFields == {"title", "description", "genre", "releaseYear", "rating"}

\* No text field of the body carries leading or trailing whitespace.
NoOuterWhitespace(b) == \A f \in TextFields \cap DOMAIN b : trim(b[f]) = b[f]

\* Slot p holds an answered create; the step is the arrival at slot q of a
\* getOne of the id that the create returned.
GetOneAfterCreate(p, q) ==
    /\ pc[p] = "done" /\ req[p].op = "post" /\ resp[p].status = 201
    /\ Arrives(q, "get")
    /\ req'[q].id = resp[p].body["movie"]["_id"]

\* C14 (as stated): a successful create by user U of an input within the
\* bounds whose text fields carry no leading or trailing whitespace, followed
\* by a getOne of the returned id, yields a record whose title, description,
\* genre, releaseYear and rating equal the values of the input and whose
\* uploadedBy is U.
C14_RoundTrip ==
    [][\A p, q \in Procs :
        /\ GetOneAfterCreate(p, q)
        /\ CreateViolations(req[p].body) = {}
        /\ NoOuterWhitespace(req[p].body)
        => /\ resp'[q].status = 200
           /\ resp'[q].body["uploadedBy"]["_id"] = req[p].user
           /\ \A f \in RoundTripFields \cap DOMAIN req[p].body :
                /\ Has(resp'[q].body, f)
                /\ resp'[q].body[f] = req[p].body[f]]_vars

\* The values the update of slot p writes: its updates object (the fields of
\* the body, text trimmed).
Written(p) == Cast(Updates(req[p].body))

\* Slots p and q hold updates of the same stored movie.
UpdateSameMovie(p, q) ==
    /\ p # q
    /\ req[p].op = "put" /\ req[q].op = "put"
    /\ req[p].id = req[q].id
    /\ req[p].id \in DOMAIN movies

\* The step is the write of the update of slot p.
UpdateWrites(p) == req[p].op = "put" /\ pc[p] = "write" /\ pc'[p] = "done"

\* C15: of two updates of one movie that are both past the ownership check,
\* the write applied first is answered 200 and sets exactly the fields it
\* supplies (every other field, and every other movie, is as before); when
\* the second write is applied to the record the first write left, it is
\* answered 200 and afterwards every field supplied by both updates holds the
\* value of the second (the last write), every field supplied by the first
\* alone holds the value of the first, every field supplied by the second
\* alone holds the value of the second, and every field supplied by neither
\* is as it was: no field holds a value that neither update nor the prior
\* record supplied.
C15_LastWriteWins ==
    [][\A p, q \in Procs :
        /\ (UpdateSameMovie(p, q) /\ pc[p] = "write" /\ pc[q] = "write" /\ UpdateWrites(p)
            => /\ resp'[p].status = 200
               /\ DOMAIN movies' = DOMAIN movies
               /\ \A i \in DOMAIN movies \ {req[p].id} : movies'[i] = movies[i]
               /\ DOMAIN movies'[req[p].id] = DOMAIN movies[req[p].id] \cup DOMAIN Written(p)
               /\ \A f \in DOMAIN movies'[req[p].id] :
                    movies'[req[p].id][f] =
                        IF f \in DOMAIN Written(p) THEN Written(p)[f]
                        ELSE movies[req[p].id][f])
        /\ (/\ UpdateSameMovie(p, q) /\ pc[p] = "done" /\ resp[p].status = 200
            /\ \A f \in DOMAIN Written(p) :
                    Has(movies[req[p].id], f) /\ movies[req[p].id][f] = Written(p)[f]
            /\ UpdateWrites(q)
            => /\ resp'[q].status = 200
               /\ DOMAIN movies' = DOMAIN movies
               /\ \A i \in DOMAIN movies \ {req[q].id} : movies'[i] = movies[i]
               /\ DOMAIN movies'[req[q].id] = DOMAIN movies[req[q].id] \cup DOMAIN Written(q)
               /\ \A f \in DOMAIN movies'[req[q].id] :
                    movies'[req[q].id][f] =
                        IF f \in DOMAIN Written(q) THEN Written(q)[f]
                        ELSE IF f \in DOMAIN Written(p) THEN Written(p)[f]
                        ELSE movies[req[q].id][f])]_vars

\* C15 witness: two updates of one movie with different bodies have both been
\* answered 200; the title is that of the one, the rating was supplied by
\* the other alone and the genre by the one alone, and the description
\* neither supplied is the created one.
C15_Witness ==
    \E p, q \in Procs :
        /\ p # q /\ req[p].id = req[q].id /\ req[p].id \in DOMAIN movies
        /\ pc[p] = "done" /\ req[p].op = "put" /\ resp[p].status = 200
        /\ pc[q] = "done" /\ req[q].op = "put" /\ resp[q].status = 200
        /\ Has(req[p].body, "rating") /\ Has(req[q].body, "genre")
        /\ resp[p].body["movie"]["title"] = Arrival
        /\ ~Has(resp[p].body["movie"], "genre")
        /\ movies[req[p].id]["title"] = Dune
        /\ movies[req[p].id]["rating"] = 9
        /\ movies[req[p].id]["genre"] = SciFi
        /\ movies[req[p].id]["description"] = Saga

\* The update of slot r (its request record) renames a stored movie of its
\* user to a title that another stored movie of that user has.
RenamesToOwnedTitle(r) ==
    /\ r.op = "put" /\ r.id \in DOMAIN movies
    /\ movies[r.id]["uploadedBy"] = r.user
    /\ Has(r.body, "title") /\ BoundViolations(r.body) = {}
    /\ \E j \in DOMAIN movies \ {r.id} :
            movies[j]["uploadedBy"] = r.user /\ movies[j]["title"] = trim(r.body["title"])

\* One owner holds two stored movies with the same title, one of them the
\* movie id.
SharesTitle(id) ==
    \E j \in DOMAIN movies \ {id} :
        /\ movies[j]["uploadedBy"] = movies[id]["uploadedBy"]
        /\ movies[j]["title"] = movies[id]["title"]

\* C16: with requests one at a time, an owner's update within the bounds
\* that sets the title of a movie to the title of another movie of the same
\* owner is not refused: it goes on to its write, is answered 200, and
\* leaves the owner with two movies of the same title.
C16_UpdateSkipsDuplicateCheck ==
    [][\A p \in Procs :
        /\ (Arrives(p, "put") /\ RenamesToOwnedTitle(req'[p])
            => pc'[p] = "write" /\ movies' = movies)
        /\ (UpdateWrites(p) /\ RenamesToOwnedTitle(req[p])
            => /\ resp'[p].status = 200
               /\ resp'[p].body["movie"]["title"] = trim(req[p].body["title"])
               /\ \E j \in DOMAIN movies' \ {req[p].id} :
                    /\ movies'[j]["uploadedBy"] = movies'[req[p].id]["uploadedBy"]
                    /\ movies'[j]["title"] = movies'[req[p].id]["title"])]_vars

\* C16 witness: user A created two movies with different titles (the first
\* Dune, the second has every optional field of the Arrival input), the
\* update of the second to the title of the first has been answered 200, and
\* A holds two movies titled Dune.
C16_Witness ==
    \E p \in Procs :
        /\ pc[p] = "done" /\ req[p].op = "put" /\ resp[p].status = 200
        /\ req[p].user = "A" /\ req[p].id \in DOMAIN movies
        /\ Has(req[p].body, "title")
        /\ movies[req[p].id]["title"] = Dune
        /\ Has(movies[req[p].id], "posterUrl")
        /\ SharesTitle(req[p].id)

\* C17 (as stated): in every state that interleaved creates and deletes
\* reach, no user owns two stored movies with the same title: two concurrent
\* creates of one title by one user never both store their movie.
C17_NoDuplicateTitles ==
    \A i, j \in DOMAIN movies :
        i # j /\ movies[i]["uploadedBy"] = movies[j]["uploadedBy"]
        => movies[i]["title"] # movies[j]["title"]

\* The stored document d is within the bounds of the Movie model.
WithinBounds(d) ==
    /\ Has(d, "title") /\ d["title"] # Empty /\ Len(d["title"]) <= 200
    /\ trim(d["title"]) = d["title"]
    /\ Has(d, "description") /\ d["description"] # Empty /\ Len(d["description"]) <= 1000
    /\ trim(d["description"]) = d["description"]
    /\ Has(d, "genre") => Len(d["genre"]) <= 50
    /\ Has(d, "releaseYear") => d["releaseYear"] \in 1900..(CurrentYear + 5)
    /\ Has(d, "rating") /\ d["rating"] \in 0..10

\* C18: in every reachable state every stored movie has a title of 1 to 200
\* characters and a description of 1 to 1000 characters, both without leading
\* or trailing whitespace, a genre (if it has one) of at most 50 characters,
\* a release year (if it has one) from 1900 to the current year plus 5, and a
\* rating from 0 to 10.
C18_StoredWithinBounds == \A id \in DOMAIN movies : WithinBounds(movies[id])

\* C18 witness: an owner's update that set the rating above 10 has been
\* answered with an error, an earlier update has set the genre of a movie to
\* the empty string, and a movie titled Dune is stored.
C18_Witness ==
    /\ \E p \in Procs :
            /\ pc[p] = "done" /\ req[p].op = "put" /\ resp[p].status = 500
            /\ Has(req[p].body, "rating") /\ req[p].body["rating"] > 10
            /\ req[p].id \in DOMAIN movies
            /\ movies[req[p].id]["uploadedBy"] = req[p].user
    /\ \E id \in DOMAIN movies : Has(movies[id], "genre") /\ movies[id]["genre"] = Empty
    /\ \E id \in DOMAIN movies : movies[id]["title"] = Dune

\* C19 (as stated): every update that has been answered 200 carries the
\* stored movie as updated: a record, not null, that holds every value the
\* update supplied (text trimmed), whatever ran between the findById and the
\* findByIdAndUpdate of its handler.
C19_UpdateAnswersStoredMovie ==
    \A p \in Procs :
        pc[p] = "done" /\ req[p].op = "put" /\ resp[p].status = 200
        => /\ DOMAIN resp[p].body["movie"] # {}
           /\ \A f \in UpdatableFields \cap DOMAIN req[p].body :
                /\ Has(resp[p].body["movie"], f)
                /\ resp[p].body["movie"][f] = Written(p)[f]

\* The number of movies on the page-th page of limit movies each, out of
\* total movies (limit 0: all of them on every page).
PageLength(total, page, limit) ==
    IF limit = 0 THEN total
    ELSE IF total - (page - 1) * limit < 0 THEN 0
    ELSE Min(limit, total - (page - 1) * limit)

\* C20 (as stated): in every list response the returned movies and
\* totalMovies describe one state of the store: the movies are newest first
\* without repetition, and they are as many as the page-th slice of exactly
\* totalMovies matching movies holds, whatever was applied between the find
\* and the countDocuments of the handler.
C20_ListDescribesOneState ==
    \A p \in Procs :
        Listed(p) /\ resp[p].status = 200
        => /\ \A i, j \in DOMAIN resp[p].body["movies"] :
                i < j => resp[p].body["movies"][i]["uploadedAt"]
                            > resp[p].body["movies"][j]["uploadedAt"]
           /\ Len(resp[p].body["movies"]) =
                PageLength(resp[p].body["totalMovies"], AskedPage(p), AskedLimit(p))

\* C21: once no fetchMovies call is in flight, the Dashboard displays the
\* movies, currentPage and totalPages of the response to the most recently
\* issued request, whatever the order the responses arrived in.
C21_DisplaysLatestResponse ==
    (dashboard.calls = {} /\ dashboard.answer.status = 200) =>
        /\ dashboard.movies = dashboard.answer.body.movies
        /\ dashboard.currentPage = dashboard.answer.body.currentPage
        /\ dashboard.totalPages = dashboard.answer.body.totalPages

\* The optional fields of the edit form, and those a submitted form has
\* cleared: genre or posterUrl empty or whitespace-only, releaseYear or rating
\* empty or 0.
OptionalFields == {"genre", "releaseYear", "rating", "posterUrl"}
ClearedFields(fd) ==
    {f \in OptionalFields :
        \/ ~Has(fd, f)
        \/ f \in TextFields /\ trim(fd[f]) = Empty
        \/ f \in NumberFields /\ fd[f] = 0}

\* The step is the write of an update the edit form has submitted through
\* slot p, answered 200 with the movie.
EditSucceeds(p) == UpdateSucceeds(p) /\ formData[p] # <<>>

\* C22: an optional field cleared in the submitted edit form (rating 0
\* included) is left out of the update request, and the successful update
\* leaves the stored movie with the value it had for that field.
C22_ClearedFieldKeepsStoredValue ==
    [][\A p \in Procs :
        EditSucceeds(p)
        => \A f \in ClearedFields(formData[p]) :
            /\ ~Has(req[p].body, f)
            /\ Has(movies'[req[p].id], f) <=> Has(movies[req[p].id], f)
            /\ Has(movies[req[p].id], f)
                => movies'[req[p].id][f] = movies[req[p].id][f]]_vars

\* An edit of a movie with genre Sci-Fi and rating 9, submitted with the
\* genre emptied and the rating set to 0, has been answered 200, and the
\* stored movie has genre Sci-Fi and rating 9.
C22_Witness ==
    \E p \in Procs :
        /\ pc[p] = "done" /\ req[p].op = "put" /\ resp[p].status = 200
        /\ {"genre", "rating"} \subseteq DOMAIN formData[p]
        /\ formData[p]["genre"] = Empty /\ formData[p]["rating"] = 0
        /\ req[p].id \in DOMAIN movies
        /\ Has(movies[req[p].id], "genre")
        /\ movies[req[p].id]["genre"] = SciFi /\ movies[req[p].id]["rating"] = 9

====
